---- MODULE Spec2Model ----
(***************************************************************************)
(* use-indexed-db-state: the useIndexedDbState hook of src/src/index.ts.   *)
(*                                                                         *)
(* One binding (one mounted hook instance) over one IndexedDB object       *)
(* store.  The hook's three useState cells are the variables value,        *)
(* storedValue and loaded; they hold what the last render saw, which is    *)
(* also what the closures created by that render see.  Every step is one   *)
(* synchronous stretch of JavaScript (an event handler, or the code        *)
(* between two awaits) together with the re-render its setState calls      *)
(* cause and the [value] effect that render runs.                          *)
(*                                                                         *)
(* Store operations are asynchronous.  Each one opens its own connection   *)
(* and its own transaction; IndexedDB serves open requests in the order    *)
(* they were made and runs transactions of overlapping scope in the order  *)
(* they were created, so the operations in flight form a queue.            *)
(***************************************************************************)
EXTENDS Integers, Sequences, FiniteSets, TLC

\* Bounds on the consumer's calls and on the store's rejections.
MaxWrites == 2
MaxDeletes == 1
MaxRejections == 1

\* JavaScript values of type T | undefined, written as strings.
undefined == "undefined"
Values == {"0", "1", "2"}

\* The hook's key argument, and another key of the same object store.
key == "testCounter"
otherKey == "otherKey"
Keys == {key, otherKey}

\* The names the hook and loadStoredData use when they are given none, and
\* the names a consumer configures.
LOCAL_DB_NAME == "defaultLocalDb"
LOCAL_STORE_NAME == "defaultStore"
NoProps == [localDbName |-> undefined, storeName |-> undefined]
Configs == [localDbName : {undefined, "testDb"}, storeName : {undefined, "testStore"}]

\* a ?? b
Coalesce(a, b) == IF a = undefined THEN b ELSE a

\* if (data): undefined and 0 are falsy.
Truthy(data) == data \notin {undefined, "0"}

VARIABLES
    props,             \* hook argument: its localDbName and storeName
    defaultValue,      \* hook argument
    value,             \* useState(defaultValue)
    storedValue,       \* useState(undefined)
    loaded,            \* useState(false)
    objectStore,       \* the durable object store: key -> value, undefined when absent
    queue,             \* store operations in flight, oldest first
    loadedCalls,       \* history: number of loadedCallback invocations
    nWrites,           \* history: consumer writes so far
    nDeletes,          \* history: consumer delete() calls so far
    nRejections,       \* history: store operations rejected so far
    sinceDelete,       \* history: what the consumer did since its last delete() call
    removed,           \* history: the entry the last settled delete() removed
    preLoadWrite,      \* history: a consumer write happened before the load settled
    postLoadWrite,     \* history: a consumer write happened after the load settled
    last               \* history: the step just taken

vars == <<props, defaultValue, value, storedValue, loaded, objectStore, queue,
          loadedCalls, nWrites, nDeletes, nRejections, sinceDelete,
          removed, preLoadWrite, postLoadWrite, last>>

localDbNameValue == Coalesce(props.localDbName, LOCAL_DB_NAME)
storeNameValue == Coalesce(props.storeName, LOCAL_STORE_NAME)

\* connectLocalDb(): the <<database, object store>> it calls connectDb with.
connectLocalDb == <<localDbNameValue, storeNameValue>>

\* loadStoredData ignoring its second argument.
loadStoredDataDefaults(config) == <<LOCAL_DB_NAME, LOCAL_STORE_NAME>>

\* loadStoredData(key, config): the <<database, object store>> it calls
\* connectDb with; config is <<>> when the argument is not given, and the
\* parameter's default applies.
loadStoredData(config) ==
    IF config = <<>> THEN <<LOCAL_DB_NAME, LOCAL_STORE_NAME>> ELSE config

\* A store operation the hook starts, with the names it opens: the load goes
\* through loadStoredData, saves and deletes through connectLocalDb.
Task(kind, data, origin) ==
    [kind |-> kind, data |-> data, origin |-> origin, pc |-> "connecting",
     names |-> IF kind = "load"
               THEN loadStoredData(<<localDbNameValue, storeNameValue>>)
               ELSE connectLocalDb]

\* await Promise.allSettled([request, tx.done]): allSettled fulfils whether
\* its members were fulfilled (ok) or rejected, so the await never throws and
\* the async function goes on to fulfil its own promise.
allSettled(ok) == "fulfilled"

\* How the promise of the async call that a step ends has settled: a call
\* whose await connectDb(...) or await store.get(key) rejects is rejected.
Settlement(op, ok) ==
    CASE op \in {"stored", "deleted"} -> allSettled(ok)
      [] op \in {"connectRejected", "loadRejected"} -> "rejected"
      [] op = "loaded" -> "fulfilled"
      [] OTHER -> "pending"

\* A step: what ran, the stored value it was about, the key of the request it
\* made on the object store, whether the store fulfilled it, how many times
\* it invoked storedCallback, which update started the operation, the
\* current value and storedValue before the step, how the call it ends has
\* settled, and, for a request, the names of the database and the object
\* store it is made on.
Step(op, data, k, ok, calls, origin) ==
    [op |-> op, data |-> data, key |-> k, ok |-> ok, stored |-> calls,
     origin |-> origin, before |-> value, marker |-> storedValue,
     promise |-> Settlement(op, ok), config |-> <<>>, opened |-> <<>>]

\* The save operations in a queue, those of one value, and the deletes.
Saves(q) == {i \in 1..Len(q) : q[i].kind = "save"}
SavesOf(q, data) == {i \in Saves(q) : q[i].data = data}
Deletes(q) == {i \in 1..Len(q) : q[i].kind = "delete"}
Loads(q) == {i \in 1..Len(q) : q[i].kind = "load"}

\* setStoredUserData skipping the put while an earlier save is in flight.
setStoredUserDataCoalesced(data, sv, origin) ==
    IF sv = data \/ Saves(queue) # {} THEN <<>>
    ELSE <<Task("save", data, origin)>>

\* setStoredUserData without its storedValue === data test.
setStoredUserDataAlways(data, sv, origin) == <<Task("save", data, origin)>>

\* setStoredUserData(data), called with the storedValue of the calling render:
\* the operations it starts.
setStoredUserData(data, sv, origin) ==
    IF sv = data THEN <<>> ELSE <<Task("save", data, origin)>>

\* The [value] effect without its loaded guard.
ValueEffectUnguarded(oldValue, newValue, ld, sv, origin) ==
    IF newValue # oldValue
    THEN setStoredUserData(newValue, sv, origin)
    ELSE <<>>

\* useEffect(() => { if (loaded) setStoredUserData(value) }, [value]) in the
\* render that follows a state update: oldValue is the value of the previous
\* render; newValue, ld and sv are the state of this one.
ValueEffect(oldValue, newValue, ld, sv, origin) ==
    IF newValue # oldValue /\ ld
    THEN setStoredUserData(newValue, sv, origin)
    ELSE <<>>

\* The first render and its two effects: the [value] effect does nothing
\* (loaded is false), the mount effect calls getStoredUserData().
Init ==
    /\ props = NoProps
    /\ defaultValue \in Values
    /\ value = defaultValue
    /\ storedValue = undefined
    /\ loaded = FALSE
    /\ objectStore \in {s \in [Keys -> Values \cup {undefined}] : s[otherKey] = "1"}
    /\ queue = <<Task("load", undefined, "mount")>>
    /\ loadedCalls = 0
    /\ nWrites = 0
    /\ nDeletes = 0
    /\ nRejections = 0
    /\ sinceDelete = "noDelete"
    /\ removed = undefined
    /\ preLoadWrite = FALSE
    /\ postLoadWrite = FALSE
    /\ last = Step("mount", undefined, undefined, TRUE, 0, "mount")

\* The consumer calls setValue(w).
Write(w) ==
    /\ nWrites < MaxWrites
    /\ value' = w
    /\ queue' = queue \o ValueEffect(value, w, loaded, storedValue, "write")
    /\ nWrites' = nWrites + 1
    /\ sinceDelete' = IF sinceDelete = "noDelete" THEN "noDelete" ELSE "written"
    /\ preLoadWrite' = (preLoadWrite \/ ~loaded)
    /\ postLoadWrite' = (postLoadWrite \/ loaded)
    /\ last' = Step("write", w, undefined, TRUE, 0, "write")
    /\ UNCHANGED <<props, defaultValue, storedValue, loaded, objectStore, loadedCalls,
                   nDeletes, nRejections, removed>>

\* The updater functions the consumer passes: counter => counter + 1,
\* wrapping within the values of the model.
Updaters ==
    {[v \in Values |-> CASE v = "0" -> "1" [] v = "1" -> "2" [] v = "2" -> "0"]}

\* An updater applied to the default value the calling code closed over.
ApplyStale(f, prev) == f[defaultValue]

\* setValue(f) with a function: React calls f with the previous value.
Apply(f, prev) == f[prev]

\* The consumer calls setValue(f) with an updater function.
Update(f) ==
    /\ nWrites < MaxWrites
    /\ LET w == Apply(f, value)
       IN  /\ value' = w
           /\ queue' = queue \o ValueEffect(value, w, loaded, storedValue, "write")
           /\ last' = Step("update", w, undefined, TRUE, 0, "write")
    /\ nWrites' = nWrites + 1
    /\ sinceDelete' = IF sinceDelete = "noDelete" THEN "noDelete" ELSE "written"
    /\ preLoadWrite' = (preLoadWrite \/ ~loaded)
    /\ postLoadWrite' = (postLoadWrite \/ loaded)
    /\ UNCHANGED <<props, defaultValue, storedValue, loaded, objectStore, loadedCalls,
                   nDeletes, nRejections, removed>>

\* The consumer calls deleteStoredUserData(): it runs up to its first await.
deleteStoredUserData ==
    /\ nDeletes < MaxDeletes
    /\ queue' = Append(queue, Task("delete", undefined, "consumer"))
    /\ nDeletes' = nDeletes + 1
    /\ sinceDelete' = "nothing"
    /\ removed' = undefined
    /\ last' = Step("delete", undefined, undefined, TRUE, 0, "consumer")
    /\ UNCHANGED <<props, defaultValue, value, storedValue, loaded, objectStore,
                   loadedCalls, nWrites, nRejections, preLoadWrite,
                   postLoadWrite>>

\* The operation whose connection is opened next: open requests are served in
\* the order they were made.
Connecting == {i \in 1..Len(queue) : queue[i].pc = "connecting"}
FirstConnecting == CHOOSE i \in Connecting : \A j \in Connecting : i <= j

\* The request an operation makes on its transaction's object store:
\* store.get(key), store.put(data, key) or store.delete(key).
Request(t) ==
    [Step(CASE t.kind = "load" -> "get" [] t.kind = "save" -> "put"
            [] t.kind = "delete" -> "remove",
          t.data, key, TRUE, 0, t.origin)
     EXCEPT !.opened = t.names]

\* await connectDb(...) resolves; the operation creates its transaction and
\* makes its request.
connectDb ==
    /\ Connecting # {}
    /\ LET i == FirstConnecting
       IN  /\ queue' = [queue EXCEPT ![i].pc = "pending"]
           /\ last' = Request(queue[i])
    /\ UNCHANGED <<props, defaultValue, value, storedValue, loaded, objectStore,
                   loadedCalls, nWrites, nDeletes, nRejections, sinceDelete,
                   removed, preLoadWrite, postLoadWrite>>

Without(i) == SubSeq(queue, 1, i - 1) \o SubSeq(queue, i + 1, Len(queue))

\* await connectDb(...) rejects: the operation ends there, rejected.
connectDbRejected ==
    /\ Connecting # {}
    /\ nRejections < MaxRejections
    /\ LET i == FirstConnecting
       IN  /\ queue' = Without(i)
           /\ last' = Step("connectRejected", queue[i].data, undefined, FALSE,
                           0, queue[i].origin)
    /\ nRejections' = nRejections + 1
    /\ UNCHANGED <<props, defaultValue, value, storedValue, loaded, objectStore,
                   loadedCalls, nWrites, nDeletes, sinceDelete, removed,
                   preLoadWrite, postLoadWrite>>

\* Transactions run in the order they were created.
Settling(kind) ==
    /\ queue # <<>>
    /\ Head(queue).kind = kind
    /\ Head(queue).pc = "pending"

\* Whether the store fulfils (TRUE) or rejects the request that settles.
Outcomes == IF nRejections < MaxRejections THEN BOOLEAN ELSE {TRUE}
Rejections(ok) == IF ok THEN nRejections ELSE nRejections + 1

\* The .then callback calling setValue(data) without its if (data) test.
LoadedValueUntested(data, v) == data

\* The .then callback of the mount effect, after getStoredUserData() has set
\* storedValue to data: the value it leaves.
LoadedValue(data, v) == IF Truthy(data) THEN data ELSE v

\* The .then callback setting loaded without invoking loadedCallback.
MarkLoadedSilently(ld, calls) == <<TRUE, calls>>

\* if (!loaded) { setLoaded(true); props?.loadedCallback?.() } in the .then
\* callback, whose closure is the first render's (ld is that render's
\* loaded): <<loaded, loadedCallback invocations>>.
MarkLoaded(ld, calls) == IF ~ld THEN <<TRUE, calls + 1>> ELSE <<ld, calls>>

\* store.get(key) rejecting, handled as if by .finally instead of .then.
getStoredUserDataRejectedFinally ==
    /\ queue # <<>> /\ Head(queue).kind = "load" /\ Head(queue).pc = "pending"
    /\ nRejections < MaxRejections
    /\ queue' = Tail(queue)
    /\ nRejections' = nRejections + 1
    /\ loaded' = TRUE
    /\ loadedCalls' = loadedCalls + 1
    /\ last' = Step("loadRejected", undefined, undefined, FALSE, 0, "mount")
    /\ UNCHANGED <<props, defaultValue, value, storedValue, objectStore, nWrites,
                   nDeletes, sinceDelete, removed, preLoadWrite, postLoadWrite>>

\* store.get(key) resolves: getStoredUserData() and the .then callback run.
getStoredUserData ==
    /\ Settling("load")
    /\ LET data == objectStore[key]
           v == LoadedValue(data, value)
       IN  /\ storedValue' = data
           /\ value' = v
           /\ queue' = Tail(queue)
                         \o ValueEffect(value, v, MarkLoaded(FALSE, loadedCalls)[1],
                                        data, "load")
           /\ last' = Step("loaded", data, undefined, TRUE, 0, "mount")
    /\ loaded' = MarkLoaded(FALSE, loadedCalls)[1]
    /\ loadedCalls' = MarkLoaded(FALSE, loadedCalls)[2]
    /\ UNCHANGED <<props, defaultValue, objectStore, nWrites, nDeletes, nRejections,
                   sinceDelete, removed, preLoadWrite, postLoadWrite>>

\* store.get(key) rejects: loadStoredData rejects and the .then callback
\* never runs.
getStoredUserDataRejected ==
    /\ Settling("load")
    /\ nRejections < MaxRejections
    /\ queue' = Tail(queue)
    /\ nRejections' = nRejections + 1
    /\ last' = Step("loadRejected", undefined, undefined, FALSE, 0, "mount")
    /\ UNCHANGED <<props, defaultValue, value, storedValue, loaded, objectStore,
                   loadedCalls, nWrites, nDeletes, sinceDelete, removed,
                   preLoadWrite, postLoadWrite>>

\* setStoredUserData resuming without its props?.storedCallback?.() call.
AfterPutNoCallback(ok, data, sv) == <<0, data>>

\* setStoredUserData resuming without its setStoredValue(data).
AfterPutKeepsMarker(ok, data, sv) == <<1, sv>>

\* What setStoredUserData does once Promise.allSettled([put, tx.done]) has
\* settled, fulfilled (ok) or not: <<storedCallback invocations, storedValue>>.
AfterPut(ok, data, sv) == <<1, data>>

\* The put transaction of the oldest operation settles: the entry is written
\* when it commits, and setStoredUserData resumes.
putSettled(ok) ==
    /\ Settling("save")
    /\ LET t == Head(queue)
           after == AfterPut(ok, t.data, storedValue)
       IN  /\ objectStore' = IF ok THEN [objectStore EXCEPT ![key] = t.data]
                             ELSE objectStore
           /\ storedValue' = after[2]
           /\ last' = Step("stored", t.data, undefined, ok, after[1], t.origin)
    /\ queue' = Tail(queue)
    /\ nRejections' = Rejections(ok)
    /\ UNCHANGED <<props, defaultValue, value, loaded, loadedCalls, nWrites, nDeletes,
                   sinceDelete, removed, preLoadWrite, postLoadWrite>>

\* deleteStoredUserData without its setStoredValue(undefined).
AfterDeleteKeepsMarker(sv, v) == <<sv, defaultValue>>

\* What deleteStoredUserData sets once Promise.allSettled([delete, tx.done])
\* has settled: <<storedValue, value>>.
AfterDelete(sv, v) == <<undefined, defaultValue>>

\* The entries a committed store.delete(k) leaves.
Removed(store, k) == [store EXCEPT ![k] = undefined]

\* The delete transaction of the oldest operation settles, and
\* deleteStoredUserData resumes.
deleteSettled(ok) ==
    /\ Settling("delete")
    /\ LET after == AfterDelete(storedValue, value)
       IN  /\ storedValue' = after[1]
           /\ value' = after[2]
           /\ queue' = Tail(queue)
                         \o ValueEffect(value, after[2], loaded, after[1], "delete")
    /\ objectStore' = IF ok THEN Removed(objectStore, key) ELSE objectStore
    /\ removed' = IF ok THEN objectStore[key] ELSE undefined
    /\ nRejections' = Rejections(ok)
    /\ last' = Step("deleted", undefined, undefined, ok, 0, "consumer")
    /\ UNCHANGED <<props, defaultValue, loaded, loadedCalls, nWrites, nDeletes,
                   sinceDelete, preLoadWrite, postLoadWrite>>

Next ==
    \/ \E w \in Values : Write(w)
    \/ \E f \in Updaters : Update(f)
    \/ deleteStoredUserData
    \/ connectDb
    \/ connectDbRejected
    \/ getStoredUserData
    \/ getStoredUserDataRejected
    \/ \E ok \in Outcomes : putSettled(ok)
    \/ \E ok \in Outcomes : deleteSettled(ok)

Spec == Init /\ [][Next]_vars

\* The hook given any of the configurations, over a store that holds a value
\* under the key, together with the standalone loader.
InitNames ==
    /\ props \in Configs
    /\ defaultValue = "0"
    /\ value = defaultValue
    /\ storedValue = undefined
    /\ loaded = FALSE
    /\ objectStore = [k \in Keys |-> "1"]
    /\ queue = <<Task("load", undefined, "mount")>>
    /\ loadedCalls = 0
    /\ nWrites = 0
    /\ nDeletes = 0
    /\ nRejections = 0
    /\ sinceDelete = "noDelete"
    /\ removed = undefined
    /\ preLoadWrite = FALSE
    /\ postLoadWrite = FALSE
    /\ last = Step("mount", undefined, undefined, TRUE, 0, "mount")

\* The configurations a consumer calls loadStoredData with: none, or both
\* names.
LoaderConfigs == {<<>>, <<"testDb", "testStore">>}

\* A consumer calls loadStoredData(key, config) and awaits its result: the
\* entry of the key when it opens the hook's object store, that of a store
\* nothing was written to otherwise.
Loader(config) ==
    /\ last' = [Step("loadStoredData",
                     IF loadStoredData(config) = connectLocalDb
                     THEN objectStore[key] ELSE undefined,
                     key, TRUE, 0, "loader")
                EXCEPT !.config = config, !.opened = loadStoredData(config)]
    /\ UNCHANGED <<props, defaultValue, value, storedValue, loaded, objectStore,
                   queue, loadedCalls, nWrites, nDeletes, nRejections,
                   sinceDelete, removed, preLoadWrite, postLoadWrite>>

NextNames ==
    \/ Next
    \/ \E config \in LoaderConfigs : Loader(config)

SpecNames == InitNames /\ [][NextNames]_vars

----------------------------------------------------------------------------
\* C1: when the key holds a value v, falsy or not, and the consumer has not
\* written before the load settles, the load leaves current value = v and
\* loaded = true, whatever the default value is.
C1_LoadRestoresStoredValue ==
    (last.op = "loaded" /\ ~preLoadWrite /\ objectStore[key] # undefined)
        => (value = objectStore[key] /\ loaded)

\* C2: when the consumer wrote a new value before the load settled and the
\* key turns out to be absent, the settling of the load starts a save of the
\* current value, with no further consumer write.
C2_PreLoadWritePersisted ==
    (last.op = "loaded" /\ last.data = undefined /\ preLoadWrite
        /\ value # defaultValue)
        => SavesOf(queue, value) # {}

\* C3: once every delete() has settled without a rejection and the consumer
\* has not written since the last delete() call, the object store holds no
\* entry for the key.
C3_DeleteLeavesNoEntry ==
    (nDeletes > 0 /\ sinceDelete = "nothing" /\ Deletes(queue) = {}
        /\ nRejections = 0)
        => objectStore[key] = undefined

\* C4: a save whose put or transaction is rejected leaves storedValue
\* unchanged and does not invoke storedCallback.
C4_RejectedSaveKeepsMarker ==
    [][(last'.op = "stored" /\ ~last'.ok)
          => (storedValue' = storedValue /\ last'.stored = 0)]_vars

\* C5: no save is started and no store.put is called while loaded is false.
C5_NoSaveBeforeLoaded ==
    (Saves(queue) # {} \/ last.op \in {"put", "stored"}) => loaded

\* C5's case: the consumer wrote before the load settled, and a store.put
\* has been called.
C5_Witness == preLoadWrite /\ last.op = "put"

\* C6: in a loaded binding every change of the current value to a value that
\* differs from storedValue starts one save, of exactly that value; the
\* store.put it calls is put(that value, key); and when the put has settled
\* storedValue is the saved value and, the put fulfilled, so is the entry.
C6_ChangePersisted ==
    /\ [][(loaded' /\ value' # value /\ value' # storedValue')
            => /\ Cardinality(Saves(queue')) = Cardinality(Saves(queue)) + 1
               /\ queue'[Len(queue')].kind = "save"
               /\ queue'[Len(queue')].data = value'
               /\ queue'[Len(queue')].pc = "connecting"]_vars
    /\ [][last'.op = "put"
            => /\ last'.key = key
               /\ \E i \in Saves(queue) :
                     /\ queue[i].pc = "connecting"
                     /\ queue'[i].pc = "pending"
                     /\ queue[i].data = last'.data]_vars
    /\ [][last'.op = "stored"
            => /\ last'.data = Head(queue).data
               /\ storedValue' = last'.data
               /\ last'.ok => objectStore' = [objectStore EXCEPT ![key] = last'.data]
               /\ ~last'.ok => objectStore' = objectStore]_vars

\* C6's case: two saves of different values are in flight at once.
C6_Witness ==
    \E i, j \in Saves(queue) : i < j /\ queue[i].data # queue[j].data

\* C7: in a loaded binding a write of the value that is already the current
\* value, or of the value storedValue holds, starts no save and invokes no
\* storedCallback; and a save that was started invokes storedCallback at
\* most once.
C7_SameValueNotSavedTwice ==
    /\ [][(last'.op \in {"write", "update"} /\ loaded
             /\ (last'.data = value \/ last'.data = storedValue))
            => (queue' = queue /\ last'.stored = 0)]_vars
    /\ [](last.stored <= 1)

\* C7's case: with no write before the load and no delete, the second write
\* of a loaded binding wrote the value the first one had written.
C7_Witness ==
    /\ last.op = "write" /\ last.data = last.before
    /\ loaded /\ nWrites = 2 /\ ~preLoadWrite /\ nDeletes = 0

\* C8: delete() starts one remove operation; the request it makes is
\* store.delete(key); when it has settled the current value is the default
\* value, storedValue is undefined and, the delete fulfilled, the entry of
\* the key and no other is gone.
C8_DeleteResets ==
    /\ [][last'.op = "delete"
            => /\ Deletes(queue') = Deletes(queue) \cup {Len(queue')}
               /\ Len(queue') = Len(queue) + 1]_vars
    /\ [](last.op = "remove" => last.key = key)
    /\ [][last'.op = "deleted"
            => /\ value' = defaultValue
               /\ storedValue' = undefined
               /\ last'.ok => objectStore' = [objectStore EXCEPT ![key] = undefined]
               /\ ~last'.ok => objectStore' = objectStore]_vars

\* C8's case: a delete() that removed an entry has settled while the current
\* value was not the default value and storedValue was not undefined.
C8_Witness ==
    /\ last.op = "deleted" /\ last.ok /\ removed # undefined
    /\ last.before # defaultValue /\ last.marker # undefined

C10_NoStoredCallbackFromDelete ==
    (last.op = "stored" /\ last.origin = "delete" /\ nRejections = 0)
        => last.stored = 0

\* C11: while the load has not settled and the consumer has not written, the
\* current value is the default value and loaded is false, whatever the store
\* holds and whatever else has been called; and the current value is never
\* undefined.
C11_DefaultBeforeLoad ==
    /\ (Loads(queue) # {} /\ nWrites = 0) => (value = defaultValue /\ ~loaded)
    /\ value \in Values

\* C11's case: the key is absent, the load is still in flight, and the
\* consumer has called delete() but has not written.
C11_Witness ==
    /\ objectStore[key] = undefined /\ Loads(queue) # {}
    /\ nWrites = 0 /\ last.op = "remove"

\* C12: loaded never goes back to false, not even when a delete() settles;
\* it becomes true only on the step where the load resolves; and
\* loadedCallback has been invoked once when loaded is true and not at all
\* when it is false.
C12_LoadedOnce ==
    /\ [][loaded => loaded']_vars
    /\ [][loaded' # loaded => last'.op = "loaded"]_vars
    /\ [](loadedCalls = IF loaded THEN 1 ELSE 0)
    /\ [](last.op = "loaded" => loaded)

\* C12's case: a delete() has settled in a loaded binding.
C12_Witness == loaded /\ last.op = "deleted" /\ loadedCalls = 1

\* C13: the step on which the load is rejected (its connection or its get)
\* leaves loaded false and loadedCallback not invoked; from then on, whatever
\* the consumer writes or deletes, loaded stays false, loadedCallback is not
\* invoked and no save is started.
LoadRejected ==
    \/ last.op = "loadRejected"
    \/ last.op = "connectRejected" /\ last.origin = "mount"
C13_RejectedLoadNeverLoaded ==
    /\ [](LoadRejected => (~loaded /\ Loads(queue) = {}))
    /\ [][(~loaded /\ Loads(queue) = {}) => (~loaded' /\ Loads(queue') = {})]_vars
    /\ []((~loaded /\ Loads(queue) = {})
           => (loadedCalls = 0 /\ Saves(queue) = {}
               /\ last.op \notin {"put", "stored"}))

\* C13's case: after the load was rejected a delete() has settled and the
\* consumer has then written a new value.
C13_Witness ==
    /\ ~loaded /\ Loads(queue) = {} /\ nRejections = 1
    /\ nDeletes = 1 /\ Deletes(queue) = {} /\ sinceDelete = "written"
    /\ last.op = "write" /\ last.data # last.before

\* C14: a save or a delete() whose request or transaction is rejected ends
\* rejected for its caller, as one whose connection is rejected does.
C14_RejectionsPropagate ==
    (last.op \in {"stored", "deleted", "connectRejected"} /\ ~last.ok)
        => last.promise = "rejected"

\* C15: the step on which a save's put is fulfilled invokes storedCallback
\* exactly once, and no other step invokes it: not the step of a write,
\* whether it started a save or was suppressed, not the step that calls
\* store.put, not a load, not a delete.
C15_StoredCallbackPerSave ==
    /\ (last.op = "stored" /\ last.ok) => last.stored = 1
    /\ last.op # "stored" => last.stored = 0

\* C15's case: of the two writes of a loaded binding one started a save, which
\* has completed, and the other was suppressed.
C15_Witness ==
    /\ last.op = "stored" /\ last.ok /\ last.origin = "write"
    /\ nWrites = 2 /\ nDeletes = 0 /\ ~preLoadWrite /\ queue = <<>>
    /\ last.data = value /\ last.marker # value

\* C16: the step of a consumer write, of a value w or of an updater f, leaves
\* the current value w, or f of the previous value, loaded or not; on that
\* step nothing is written to the store, storedValue does not change, the
\* operations in flight are as they were and a save the write starts has
\* not yet opened its connection.
C16_WriteVisibleAtOnce ==
    [][last'.op \in {"write", "update"}
        => /\ value' = last'.data
           /\ last'.op = "update" => \E f \in Updaters : value' = f[value]
           /\ objectStore' = objectStore
           /\ storedValue' = storedValue
           /\ loaded' = loaded
           /\ Len(queue') >= Len(queue)
           /\ SubSeq(queue', 1, Len(queue)) = queue
           /\ \A i \in 1..Len(queue') :
                 i > Len(queue) => queue'[i].pc = "connecting"]_vars

\* C16's case: an updater changed the current value of a loaded binding; the
\* save of the new value has only been started and the store holds another
\* value.
C16_Witness ==
    /\ last.op = "update" /\ loaded /\ value # last.before
    /\ SavesOf(queue, value) # {} /\ objectStore[key] # value
    /\ last.before # defaultValue

\* C17: every operation of the hook in flight, every request it makes (get,
\* put, delete) and every call of the standalone loader opens the database
\* and the object store of its configuration, each name that is not given
\* being the default one; with no configuration that is the default pair,
\* and a hook given a name never opens the default pair.
C17_ConfiguredNames ==
    LET Default == <<LOCAL_DB_NAME, LOCAL_STORE_NAME>>
        Given == <<IF props.localDbName # undefined
                   THEN props.localDbName ELSE LOCAL_DB_NAME,
                   IF props.storeName # undefined
                   THEN props.storeName ELSE LOCAL_STORE_NAME>>
    IN  /\ props = NoProps => Given = Default
        /\ props # NoProps => Given # Default
        /\ \A i \in 1..Len(queue) : queue[i].names = Given
        /\ last.op \in {"get", "put", "remove"} => last.opened = Given
        /\ last.op = "loadStoredData"
             => /\ last.config = <<>> => last.opened = Default
                /\ last.config # <<>> => last.opened = last.config

\* C17's case: a hook configured with both names has loaded, saved a value
\* and makes the request of a delete(), and all three kinds of request are
\* made.
C17_Witness ==
    /\ props.localDbName = "testDb" /\ props.storeName = "testStore"
    /\ loaded /\ objectStore[key] = "2" /\ last.op = "remove"
    /\ last.opened = <<"testDb", "testStore">>

\* C18: in a loaded binding whose writes all came after the load, with no
\* delete() and no rejection, once the last operation in flight has settled
\* the entry of the key is the current value.
C18_SettledEntryIsValue ==
    (loaded /\ postLoadWrite /\ ~preLoadWrite /\ nDeletes = 0
        /\ nRejections = 0 /\ queue = <<>> /\ last.op = "stored")
        => objectStore[key] = value

\* C19: when the key holds v and the consumer wrote w, different from v and
\* from the default value, before the load settled, the settling of the load leaves current value v
\* and storedValue v, starts no save, and the entry is still v.
C19_LoadWinsOverPreLoadWrite ==
    (last.op = "loaded" /\ preLoadWrite /\ last.data # undefined
        /\ last.before # last.data /\ last.before # defaultValue)
        => /\ value = last.data
           /\ storedValue = last.data
           /\ Saves(queue) = {}
           /\ objectStore[key] = last.data

\* C20: as long as the consumer has neither written nor called delete(), no
\* save is in flight, no store.put has been called and storedCallback has
\* not been invoked; and the step on which the load settles leaves in
\* storedValue the entry it read, undefined when the key is absent.
C20_LoadNeverSaves ==
    (nWrites = 0 /\ nDeletes = 0)
        => /\ Saves(queue) = {}
           /\ last.op \notin {"put", "stored"}
           /\ last.stored = 0
           /\ last.op = "loaded"
                => (storedValue = last.data /\ last.data = objectStore[key])

\* C20's case: the load settled with a value that is not the default one and
\* changed the current value, and the consumer did nothing.
C20_Witness ==
    /\ nWrites = 0 /\ nDeletes = 0 /\ last.op = "loaded" /\ loaded
    /\ value = objectStore[key] /\ value # defaultValue /\ value # last.before

\* C21: the three effects of delete() take place on one step: the call and
\* the request of a delete() leave the entry, the current value and
\* storedValue as they were, and the step on which the delete() settles
\* leaves no entry under the key, the current value the default one and
\* storedValue undefined.
C21_DeleteAtomic ==
    [][/\ last'.op \in {"delete", "remove"}
            => /\ objectStore' = objectStore
               /\ value' = value
               /\ storedValue' = storedValue
       /\ last'.op = "deleted"
            => /\ objectStore'[key] = undefined
               /\ value' = defaultValue
               /\ storedValue' = undefined]_vars

\* C22: with no rejection, whenever the binding is loaded and no load, save
\* or delete is in flight, storedValue is the entry of the key, undefined
\* when the key has none.
C22_MarkerAgreesWithStore ==
    (loaded /\ queue = <<>> /\ nRejections = 0)
        => storedValue = objectStore[key]

\* C22's case: a delete() removed an entry, the consumer wrote afterwards,
\* and the save of a value other than the default one was the last
\* operation to settle.
C22_Witness ==
    /\ loaded /\ queue = <<>> /\ nRejections = 0
    /\ nDeletes > 0 /\ removed # undefined /\ sinceDelete = "written"
    /\ last.op = "stored" /\ objectStore[key] # undefined
    /\ objectStore[key] # defaultValue
====
